---- MODULE Spec2Model ----
(***************************************************************************)
(* The apx build-step orchestrator (Vite plugin): the closure state of     *)
(* apx(options), its lifecycle hooks, the debounce timer, the child        *)
(* processes of shell steps and the asynchronous pipeline runs, on the     *)
(* single-threaded event loop of the host.  One action is one event-loop   *)
(* task: a hook call, a timer callback, a child-process event or a promise *)
(* continuation, run until its next suspension point.                      *)
(***************************************************************************)
EXTENDS Integers, Sequences, FiniteSets, TLC

\* ---- bounds of the model ------------------------------------------------
MaxSteps == 2      \* longest configured pipeline
MaxRuns == 2       \* pipeline runs suspended at the same time
MaxTimers == 2     \* timers armed in the host at the same time
MaxDead == 1       \* tracked handles of children that failed to spawn
MaxCode == 63      \* largest exit code a command ends with
MaxGens == 2       \* invocations of a codegen action suspended at the same time

\* ---- configuration --------------------------------------------------------
Detached == FALSE              \* spawn option `detached`
Cwd == <<"/", "w">>            \* process.cwd()
ignore == << <<"/", "g">> >>   \* options.ignore, already relative to Cwd
Files == { <<"/", "w", "/", "s">>, <<"/", "w", "/", "g">>,
           <<"/", "w", "/", "g", "x">>, <<"/", "g">> }
OutDirPath == <<"/", "w", "/", "o">>

StepKinds == {"shell", "callback"}
StepLists == UNION { [1..n -> StepKinds] : n \in 0..MaxSteps }

Pids == 1..MaxRuns
RunIds == 1..MaxRuns
TimerIds == 1..MaxTimers

VARIABLES
  steps,            \* options.steps: the kind of each step's action
  outDir,           \* <<>> while unset
  resolvedIgnores,
  timer,            \* 0 is null, else the handle of a timer
  stopping,
  isRunningSteps,
  childProcesses,   \* sequence of handles; a handle is its pid, 0 = no pid
  armed,            \* host: timers set and neither fired nor cleared
  procs,            \* host: pid -> state of the operating-system process
  fs,               \* host: what is at outDir: "absent" | "dir" (without
                    \* marker) | "marked" (with the marker the guard writes) |
                    \* "custom" (with a marker of other content) | "file"
                    \* (a regular file in the directory's place)
  faults,           \* host: whether file-system calls may fail here
  runs,             \* run id -> the suspended runAllSteps invocation
  last,             \* the event-loop task that ran last and what it delivered
  cmd,              \* one run(command) on its own: the child and its promise
  files,            \* host: input path -> content of the file, or Absent
  specHashCache,    \* input path -> stored hash, <<>> while there is none
  gens,             \* the suspended invocations of Orval actions
  seen,             \* input path -> the content the last invocation that
                    \* ended well had read, {} before there is one
  produced,         \* input path -> the content the generator had read in
                    \* the last generation that wrote output, {} before
  gl,               \* the codegen task that ran last
  committer         \* input path -> the codegen step whose invocation stored
                    \* the entry of the path, 0 while no step is told apart

vars == <<steps, outDir, resolvedIgnores, timer, stopping, isRunningSteps,
          childProcesses, armed, procs, fs, faults, runs, last, cmd,
          files, specHashCache, gens, seen, produced, gl, committer>>

runnerVars == <<steps, outDir, resolvedIgnores, timer, stopping,
                isRunningSteps, childProcesses, armed, procs, fs, faults,
                runs, last>>
cgVars == <<files, specHashCache, gens, seen, produced, gl, committer>>

\* ---- small helpers --------------------------------------------------------
Range(q) == { q[i] : i \in 1..Len(q) }

Min(S) == CHOOSE x \in S : \A y \in S : x <= y

\* String.prototype.includes on paths
includes(file, pat) ==
  \E i \in 1..(Len(file) + 1) :
     /\ i + Len(pat) - 1 <= Len(file)
     /\ SubSeq(file, i, i + Len(pat) - 1) = pat

\* path.resolve(base, p) for a relative p given with its leading separator
resolve(base, p) == base \o p

\* What an event-loop task did, for the properties to refer to:
\*   ev      the hook, timer or event that ran
\*   took    what a trigger or a file change came to: "started" | "running"
\*           (dropped, a run is in flight) | "stopping" | "cancelled" |
\*           "nosteps" | "armed" | "ignored" | "stopped" | "unstopped"
\*   host    what the host got back: "resolved" | "rejected" | "pending" from
\*           the promise of buildStart, "unhandledRejection" from a promise
\*           nobody awaits
\*   run, origin, result, log   the run that ended in this task, if one did
\*   kills   the <<pid, signal>> pairs this task sent
\*   exit    how the process ended whose 'exit' event this task dispatched
NoLast == [ev |-> "init", took |-> "none", host |-> "none", run |-> 0,
           origin |-> "none", result |-> "none", log |-> <<>>, kills |-> {},
           exit |-> "none"]
\* Null stands for null in the place of an exit code, "none" in the place of
\* a signal
Null == -1
NoCmd == [st |-> "idle", code |-> Null, signal |-> "none", ok |-> TRUE,
          err |-> <<>>]
\* the codegen step: input files, their contents, the invocations
InputPaths == {"p", "q"}
\* a file's content is its bytes: "A", "B", and two bytes that are no UTF-8
Contents == {<<65>>, <<66>>, <<128>>, <<255>>}
\* files[p] is the set of the one content of p, empty while p does not exist
Absent == {}
GenIds == 1..MaxGens
\* read is the bytes specContent was decoded from; src is the content
\* generate() has read from the input path itself, {} while it has not
IdleGen == [st |-> "idle", input |-> "none", read |-> <<>>,
            specContent |-> <<>>, specHash |-> <<>>, src |-> {}]
\* what a codegen task did: ev "start" | "read" | "settle" | "write"; took "missing" |
\* "unchanged" | "generate" | "readfail" | "done" | "failed"; cb how the
\* action's promise stands, in the terms of a callback step
NoGl == [ev |-> "init", gen |-> 0, input |-> "none", took |-> "none",
         cb |-> "none"]
FreeRunRec == [st |-> "free", origin |-> "none", idx |-> 0, pid |-> 0,
               res |-> "none", log |-> <<>>]
\* a process: "free" (no such process), "running", "killed" (running, a
\* signal of ours delivered), or ended and its exit event not yet dispatched:
\* "ok" (code 0), "fail" (another code), "sig" (ended by a signal of others),
\* "term" (ended by the signal we sent)
ProcStates == {"free", "running", "killed", "ok", "fail", "sig", "term"}

\* The mutable state as one record, so that the functions of the closure
\* compose the way the calls do.
St == [outDir |-> outDir, resolvedIgnores |-> resolvedIgnores,
       timer |-> timer, stopping |-> stopping,
       isRunningSteps |-> isRunningSteps, childProcesses |-> childProcesses,
       armed |-> armed, procs |-> procs, fs |-> fs, runs |-> runs,
       last |-> last]

Commit(s) ==
  /\ outDir' = s.outDir
  /\ resolvedIgnores' = s.resolvedIgnores
  /\ timer' = s.timer
  /\ stopping' = s.stopping
  /\ isRunningSteps' = s.isRunningSteps
  /\ childProcesses' = s.childProcesses
  /\ armed' = s.armed
  /\ procs' = s.procs
  /\ fs' = s.fs
  /\ runs' = s.runs
  /\ last' = s.last
  /\ UNCHANGED <<steps, faults, cmd, cgVars>>

\* a new event-loop task: nothing delivered yet
Event(s, ev) == [s EXCEPT !.last = [NoLast EXCEPT !.ev = ev]]

\* ---- the functions of the closure (src/dist/index.js) --------------------
\* What the host lets each call do is an input of the action:
\*   c.fsr   "ok" | "mkdirfail" | "writefail"   file-system calls of the guard
\*   c.spawn "ok" | "error"                      whether spawn() gets a process
\*   c.cb    "pending" | "ok" | "throw"          how a callback step returns
\*   c.plat  "posix" | "win32"                   process.platform
Choices == [fsr : {"ok", "mkdirfail", "writefail"}, spawn : {"ok", "error"},
            cb : {"pending", "ok", "throw"}, plat : {"posix", "win32"}]
Quiet == [fsr |-> "ok", spawn |-> "ok", cb |-> "pending", plat |-> "posix"]

\* the guard as it would be without the try block: the hook that called it
\* throws to the host
ensureOutDirAndGitignore_nocatch(s, c) ==
  IF s.outDir = <<>> THEN s
  ELSE IF s.fs = "custom" THEN s
  ELSE IF s.fs = "file" THEN [s EXCEPT !.last.host = "threw"]
  ELSE IF s.fs = "absent" /\ c.fsr = "mkdirfail"
       THEN [s EXCEPT !.last.host = "threw"]
  ELSE IF s.fs # "marked" /\ c.fsr = "writefail"
       THEN [s EXCEPT !.fs = "dir", !.last.host = "threw"]
  ELSE [s EXCEPT !.fs = "marked"]

\* the guard as it would be without the existsSync test before the marker is
\* written
ensureOutDirAndGitignore_overwrite(s, c) ==
  IF s.outDir = <<>> THEN s
  ELSE IF s.fs = "file" THEN s
  ELSE IF s.fs = "absent" /\ c.fsr = "mkdirfail" THEN s
  ELSE IF c.fsr = "writefail"
       THEN [s EXCEPT !.fs = IF @ = "absent" THEN "dir" ELSE @]
  ELSE [s EXCEPT !.fs = "marked"]

\* the guard as it would be with `else if` before the marker test
ensureOutDirAndGitignore_elseif(s, c) ==
  IF s.outDir = <<>> THEN s
  ELSE IF s.fs = "custom" THEN s
  ELSE IF s.fs = "file" THEN s
  ELSE IF s.fs = "absent"
       THEN IF c.fsr = "mkdirfail" THEN s ELSE [s EXCEPT !.fs = "dir"]
  ELSE IF s.fs # "marked" /\ c.fsr = "writefail"
       THEN [s EXCEPT !.fs = "dir"]
  ELSE [s EXCEPT !.fs = "marked"]

ensureOutDirAndGitignore(s, c) ==
  IF s.outDir = <<>> THEN s
  ELSE IF s.fs = "custom" THEN s       \* both exist: nothing to do
  ELSE IF s.fs = "file" THEN s         \* writeFileSync throws ENOTDIR: caught
  ELSE IF s.fs = "absent" /\ c.fsr = "mkdirfail" THEN s          \* caught
  ELSE IF s.fs # "marked" /\ c.fsr = "writefail"
       THEN [s EXCEPT !.fs = "dir"]                              \* caught
  ELSE [s EXCEPT !.fs = "marked"]

\* kill(2): a process that is still running will end by the signal, one that
\* has ended already is not affected.
Signal(s, pid, sig) ==
  [s EXCEPT !.procs[pid] = IF @ = "running" THEN "killed" ELSE @,
            !.last.kills = @ \cup {<<pid, sig>>}]

killProcess(s, pid, c) ==
  IF pid = 0 THEN s
  ELSE IF c.plat # "win32"
       THEN IF Detached
            THEN Signal(s, pid, "SIGTERM")   \* process.kill(-pid): the group
            ELSE Signal(s, pid, "SIGKILL")   \* no such group: the catch branch
       ELSE Signal(s, pid, "SIGTERM")

RECURSIVE KillEach(_, _, _)
KillEach(s, q, c) ==
  IF q = <<>> THEN s
  ELSE KillEach(IF Head(q) # 0 THEN killProcess(s, Head(q), c) ELSE s,
                Tail(q), c)

\* stop() as it would be without the kill loop: the tracked children are
\* forgotten without a signal
stop_nokill(s, c) ==
  IF s.stopping THEN [s EXCEPT !.last.took = "stopped"]
  ELSE LET s1 == [s EXCEPT !.stopping = TRUE]
           s2 == IF s1.timer # 0
                 THEN [s1 EXCEPT !.armed = @ \ {s1.timer}, !.timer = 0]
                 ELSE s1
       IN [s2 EXCEPT !.childProcesses = <<>>]

\* stop() as it would be if it neither returned early nor forgot the
\* children it has signalled
stop_again(s, c) ==
  LET s1 == [s EXCEPT !.stopping = TRUE]
      s2 == IF s1.timer # 0
            THEN [s1 EXCEPT !.armed = @ \ {s1.timer}, !.timer = 0]
            ELSE s1
  IN IF Len(s2.childProcesses) > 0
     THEN KillEach(s2, s2.childProcesses, c)
     ELSE s2

\* stop() as it would be if it also resolved the promises of the commands it
\* signals, ahead of their exit events
stop_settles(s, c) ==
  IF s.stopping THEN [s EXCEPT !.last.took = "stopped"]
  ELSE LET s1 == [s EXCEPT !.stopping = TRUE]
           s2 == IF s1.timer # 0
                 THEN [s1 EXCEPT !.armed = @ \ {s1.timer}, !.timer = 0]
                 ELSE s1
           s3 == IF Len(s2.childProcesses) > 0
                 THEN [KillEach(s2, s2.childProcesses, c)
                         EXCEPT !.childProcesses = <<>>]
                 ELSE s2
       IN [s3 EXCEPT !.runs = [r \in RunIds |->
                                 IF s3.runs[r].st = "exit"
                                 THEN [s3.runs[r] EXCEPT !.st = "tick",
                                                         !.res = "ok"]
                                 ELSE s3.runs[r]]]

\* last.took = "stopped" marks a call that found stopping set already
stop(s, c) ==
  IF s.stopping THEN [s EXCEPT !.last.took = "stopped"]
  ELSE LET s1 == [s EXCEPT !.stopping = TRUE]
           s2 == IF s1.timer # 0
                 THEN [s1 EXCEPT !.armed = @ \ {s1.timer}, !.timer = 0]
                 ELSE s1
       IN IF Len(s2.childProcesses) > 0
          THEN [KillEach(s2, s2.childProcesses, c)
                  EXCEPT !.childProcesses = <<>>]
          ELSE s2

\* reset() as it would be if it signalled the tracked children before it
\* forgets them
reset_signalling(s) ==
  LET s1 == KillEach(s, s.childProcesses, Quiet)
  IN [s1 EXCEPT !.stopping = FALSE, !.timer = 0, !.isRunningSteps = FALSE,
                !.childProcesses = <<>>,
                !.last.took = IF s.stopping THEN "unstopped" ELSE @]

\* last.took = "unstopped" marks a call that found stopping set
reset(s) ==
  [s EXCEPT !.stopping = FALSE, !.timer = 0, !.isRunningSteps = FALSE,
            !.childProcesses = <<>>,
            !.last.took = IF s.stopping THEN "unstopped" ELSE @]

Log(s, r, e) == [s EXCEPT !.runs[r].log = Append(@, e)]

Suspend(s, r, st, res) == [s EXCEPT !.runs[r].st = st, !.runs[r].res = res]

\* the pid the host gives the child of run r: a run awaits one child at a
\* time, so the run's own number is free
NewPid(s, r) == r

executeShellCommand(s, r, c) ==
  IF s.stopping THEN Suspend(s, r, "tick", "ok")
  ELSE IF c.spawn = "error"
  THEN \* no pid; the 'error' event follows on the next tick and rejects
       Suspend([s EXCEPT !.childProcesses = Append(@, 0),
                         !.runs[r].pid = 0], r, "tick", "err")
  ELSE LET pid == NewPid(s, r)
           s1 == Suspend([s EXCEPT
                            !.procs[pid] = "running",
                            !.childProcesses = Append(@, pid),
                            !.runs[r].pid = pid], r, "exit", "none")
       IN IF s1.stopping THEN killProcess(s1, pid, c) ELSE s1

executeAction(s, r, kind, c) ==
  IF s.stopping THEN Suspend(s, r, "tick", "skip")
  ELSE LET s1 == ensureOutDirAndGitignore(s, c)
       IN IF kind = "shell" THEN executeShellCommand(s1, r, c)
          ELSE IF s1.stopping THEN Suspend(s1, r, "tick", "skip")
          ELSE IF c.cb = "pending" THEN Suspend(s1, r, "promise", "none")
          ELSE IF c.cb = "ok" THEN Suspend(s1, r, "tick", "ok")
          ELSE Suspend(s1, r, "tick", "err")

\* the end of a run as it would be without the finally block
EndRun_nofinally(s, r, result, c) ==
  LET o == s.runs[r].origin
      s2 == IF o = "timer" /\ result # "failed"
            THEN ensureOutDirAndGitignore(s, c)
            ELSE s
      host == IF result = "failed"
              THEN IF o = "buildStart" THEN "rejected"
                   ELSE "unhandledRejection"
              ELSE IF o = "buildStart" THEN "resolved" ELSE "none"
  IN [s2 EXCEPT !.runs[r] = FreeRunRec,
                !.last = [@ EXCEPT !.host = host, !.run = r, !.origin = o,
                                   !.result = result,
                                   !.log = s.runs[r].log]]

\* runAllSteps returns or throws to the hook that awaits it: buildStart hands
\* the outcome to the host, the timer callback has no caller to hand it to.
EndRun(s, r, result, c) ==
  LET o == s.runs[r].origin
      s1 == [s EXCEPT !.isRunningSteps = FALSE]
      s2 == IF o = "timer" /\ result # "failed"
            THEN ensureOutDirAndGitignore(s1, c)
            ELSE s1
      host == IF result = "failed"
              THEN IF o = "buildStart" THEN "rejected"
                   ELSE "unhandledRejection"
              ELSE IF o = "buildStart" THEN "resolved" ELSE "none"
  IN [s2 EXCEPT !.runs[r] = FreeRunRec,
                !.last = [@ EXCEPT !.host = host, !.run = r, !.origin = o,
                                   !.result = result,
                                   !.log = s.runs[r].log]]

\* The head of the for loop, about to take step k.
StepLoop(s, r, k, c) ==
  IF k > Len(steps) THEN EndRun(s, r, "completed", c)
  ELSE IF s.stopping THEN EndRun(s, r, "stopped", c)
  ELSE executeAction(Log([s EXCEPT !.runs[r].idx = k], r, <<k, "start">>),
                     r, steps[k], c)

\* the loop as it would be if it took the settled step again instead of the
\* next one
Resume_again(s, r, res, c) ==
  LET k == s.runs[r].idx
  IN IF res = "err" THEN EndRun(Log(s, r, <<k, "fail">>), r, "failed", c)
     ELSE LET s1 == IF res = "skip" THEN s
                    ELSE ensureOutDirAndGitignore(s, c)
          IN StepLoop(Log(s1, r, <<k, "ok">>), r, k, c)

\* the loop as it would be if a failed step were logged and not rethrown
Resume_swallow(s, r, res, c) ==
  LET k == s.runs[r].idx
  IN IF res = "err" THEN StepLoop(Log(s, r, <<k, "fail">>), r, k + 1, c)
     ELSE LET s1 == IF res = "skip" THEN s
                    ELSE ensureOutDirAndGitignore(s, c)
          IN StepLoop(Log(s1, r, <<k, "ok">>), r, k + 1, c)

\* The await of step runs[r].idx is over with res.
Resume(s, r, res, c) ==
  LET k == s.runs[r].idx
  IN IF res = "err" THEN EndRun(Log(s, r, <<k, "fail">>), r, "failed", c)
     ELSE LET s1 == IF res = "skip" THEN s
                    ELSE ensureOutDirAndGitignore(s, c)
          IN StepLoop(Log(s1, r, <<k, "ok">>), r, k + 1, c)

Dropped(s, origin, why, c) ==
  LET s1 == IF origin = "timer" THEN ensureOutDirAndGitignore(s, c) ELSE s
  IN [s1 EXCEPT !.last.host = IF origin = "buildStart" THEN "resolved"
                              ELSE "none",
                !.last.took = why]

\* runAllSteps as it would be without the isRunningSteps guard
runAllSteps_noguard(s, origin, c) ==
  IF s.stopping THEN Dropped(s, origin, "stopping", c)
  ELSE LET r == Min({x \in RunIds : s.runs[x].st = "free"})
           s1 == [s EXCEPT !.isRunningSteps = TRUE,
                           !.runs[r] = [FreeRunRec EXCEPT !.st = "tick",
                                                          !.origin = origin],
                           !.last.host = IF origin = "buildStart"
                                         THEN "pending" ELSE "none",
                           !.last.took = "started"]
       IN StepLoop(s1, r, 1, c)

runAllSteps(s, origin, c) ==
  IF s.stopping THEN Dropped(s, origin, "stopping", c)
  ELSE IF s.isRunningSteps THEN Dropped(s, origin, "running", c)
  ELSE LET r == Min({x \in RunIds : s.runs[x].st = "free"})
           s1 == [s EXCEPT !.isRunningSteps = TRUE,
                           !.runs[r] = [FreeRunRec EXCEPT !.st = "tick",
                                                          !.origin = origin],
                           !.last.host = IF origin = "buildStart"
                                         THEN "pending" ELSE "none",
                           !.last.took = "started"]
       IN StepLoop(s1, r, 1, c)

Init ==
  /\ steps \in StepLists
  /\ outDir = <<>>
  /\ resolvedIgnores = <<>>
  /\ timer = 0
  /\ stopping = FALSE
  /\ isRunningSteps = FALSE
  /\ childProcesses = <<>>
  /\ armed = {}
  /\ procs = [p \in Pids |-> "free"]
  /\ fs = "absent"
  /\ faults = FALSE
  /\ runs = [r \in RunIds |-> FreeRunRec]
  /\ last = NoLast
  /\ cmd = NoCmd
  /\ files = [p \in InputPaths |-> Absent]
  /\ specHashCache = [p \in InputPaths |-> <<>>]
  /\ gens = [g \in GenIds |-> IdleGen]
  /\ seen = [p \in InputPaths |-> {}]
  /\ produced = [p \in InputPaths |-> {}]
  /\ gl = NoGl
  /\ committer = [p \in InputPaths |-> 0]
\* ---- the event-loop tasks ------------------------------------------------
Ticking == \E r \in RunIds : runs[r].st = "tick"
HasFreeRun == \E r \in RunIds : runs[r].st = "free"
Dead(q) == Cardinality({ i \in 1..Len(q) : q[i] = 0 })

\* the inputs an action may draw, within the bounds: a behaviour has failing
\* spawns or failing file-system calls, not both
Inputs ==
  { c \in Choices : /\ c.spawn = "error" =>
                          ~faults /\ Dead(childProcesses) < MaxDead
                    /\ ~faults => c.fsr = "ok" }
FsInputs ==
  { c \in Inputs : c.spawn = "ok" /\ c.cb = "pending" /\ c.plat = "posix" }
KillInputs ==
  { c \in Inputs : /\ c.spawn = "ok" /\ c.cb = "pending"
                   /\ childProcesses = <<>> => c.plat = "posix" }
\* for a task that may take step k: only what that step can use
StepInputs(k) ==
  { c \in Inputs : /\ c.plat = "posix"
                   /\ (k > Len(steps) \/ stopping) =>
                         c.spawn = "ok" /\ c.cb = "pending"
                   /\ k <= Len(steps) =>
                         IF steps[k] = "shell" THEN c.cb = "pending"
                         ELSE c.spawn = "ok" }

ConfigResolved ==
  \E c \in FsInputs :
    Commit(ensureOutDirAndGitignore(
             reset([Event(St, "configResolved") EXCEPT
                      !.outDir = OutDirPath,
                      !.resolvedIgnores =
                         [i \in DOMAIN ignore |-> resolve(Cwd, ignore[i])]]),
             c))

ConfigureServer ==
  \E c \in FsInputs :
    Commit(ensureOutDirAndGitignore(Event(St, "configureServer"), c))

\* the listener configureServer puts on the http server's close event
ServerClose ==
  \E c \in KillInputs : Commit(stop(Event(St, "serverClose"), c))

\* buildStart as it would be if it left the trigger to the debounce timer
\* whenever one is pending
buildStart_deferring(s, c) ==
  LET s1 == ensureOutDirAndGitignore(s, c)
  IN IF Len(steps) > 0 /\ s1.timer = 0 THEN runAllSteps(s1, "buildStart", c)
     ELSE [s1 EXCEPT !.last.host = "resolved", !.last.took = "nosteps"]

buildStart(s, c) ==
  LET s1 == ensureOutDirAndGitignore(s, c)
  IN IF Len(steps) > 0 THEN runAllSteps(s1, "buildStart", c)
     ELSE [s1 EXCEPT !.last.host = "resolved", !.last.took = "nosteps"]

BuildStart ==
  /\ ~stopping => HasFreeRun
  /\ \E c \in StepInputs(IF isRunningSteps THEN MaxSteps + 1 ELSE 1) :
       Commit(buildStart(Event(St, "buildStart"), c))

\* handleHotUpdate as it would be without the stopping check
handleHotUpdate_nostop(s, file, c) ==
  LET s1 == ensureOutDirAndGitignore(s, c)
  IN IF \E i \in DOMAIN s1.resolvedIgnores :
           includes(file, s1.resolvedIgnores[i])
     THEN [s1 EXCEPT !.last.took = "ignored"]
     ELSE LET s2 == IF s1.timer # 0
                    THEN [s1 EXCEPT !.armed = @ \ {s1.timer}]
                    ELSE s1
              t == Min(TimerIds \ s2.armed)
          IN [s2 EXCEPT !.timer = t, !.armed = @ \cup {t},
                        !.last.took = "armed"]

\* handleHotUpdate as it would be if it cleared the pending timer before it
\* looked at the ignore patterns
handleHotUpdate_clearfirst(s, file, c) ==
  LET s0 == ensureOutDirAndGitignore(s, c)
      s1 == IF s0.timer # 0
            THEN [s0 EXCEPT !.armed = @ \ {s0.timer}, !.timer = 0]
            ELSE s0
  IN IF s1.stopping THEN [s1 EXCEPT !.last.took = "stopping"]
     ELSE IF \E i \in DOMAIN s1.resolvedIgnores :
                includes(file, s1.resolvedIgnores[i])
     THEN [s1 EXCEPT !.last.took = "ignored"]
     ELSE LET t == Min(TimerIds \ s1.armed)
          IN [s1 EXCEPT !.timer = t, !.armed = @ \cup {t},
                        !.last.took = "armed"]

handleHotUpdate(s, file, c) ==
  LET s1 == ensureOutDirAndGitignore(s, c)
  IN IF s1.stopping THEN [s1 EXCEPT !.last.took = "stopping"]
     ELSE IF \E i \in DOMAIN s1.resolvedIgnores :
                includes(file, s1.resolvedIgnores[i])
     THEN [s1 EXCEPT !.last.took = "ignored"]
     ELSE LET s2 == IF s1.timer # 0
                    THEN [s1 EXCEPT !.armed = @ \ {s1.timer}]  \* clearTimeout
                    ELSE s1
              t == Min(TimerIds \ s2.armed)
          IN [s2 EXCEPT !.timer = t, !.armed = @ \cup {t},
                        !.last.took = "armed"]

HandleHotUpdate ==
  /\ (armed \ {timer}) # TimerIds
  /\ \E file \in Files, c \in FsInputs :
       Commit(handleHotUpdate(Event(St, "handleHotUpdate"), file, c))

\* the callback given to setTimeout, for the armed timer t
timerCallback(s, c) ==
  LET s1 == [s EXCEPT !.timer = 0]
  IN IF s1.stopping THEN [s1 EXCEPT !.last.took = "cancelled"]
     ELSE runAllSteps(ensureOutDirAndGitignore(s1, c), "timer", c)

TimerFire ==
  /\ ~stopping => HasFreeRun
  /\ \E t \in armed :
       \E c \in StepInputs(IF isRunningSteps THEN MaxSteps + 1 ELSE 1) :
          Commit(timerCallback([Event(St, "timerFire") EXCEPT
                                  !.armed = @ \ {t}], c))

WriteBundle ==
  \E c \in FsInputs :
    Commit(ensureOutDirAndGitignore(Event(St, "writeBundle"), c))

CloseBundle ==
  \E c \in KillInputs :
    Commit(stop(ensureOutDirAndGitignore(Event(St, "closeBundle"), c), c))

\* (code, signal) of the 'exit' event: one of the two is null.
Signals == {"SIGTERM", "SIGKILL", "SIGINT"}
ExitStatuses ==
  [code : 0..MaxCode, signal : {"none"}] \cup [code : {Null}, signal : Signals]

\* the exit listener as it would be if it looked at the code first
settle_codefirst(code, signal) ==
  IF code # 0
  THEN [ok |-> FALSE, err |-> <<"Command failed with exit code", code>>]
  ELSE [ok |-> TRUE, err |-> <<>>]

\* how the 'exit' listener settles the promise of executeShellCommand
settle(code, signal) ==
  IF signal # "none" THEN [ok |-> TRUE, err |-> <<>>]
  ELSE IF code # 0
  THEN [ok |-> FALSE, err |-> <<"Command failed with exit code", code>>]
  ELSE [ok |-> TRUE, err |-> <<>>]

\* the exit status of a process that ended in state how
StatusOf(how) ==
  IF how = "ok" THEN [code |-> 0, signal |-> "none"]
  ELSE IF how = "fail" THEN [code |-> 1, signal |-> "none"]
  ELSE IF how = "sig" THEN [code |-> Null, signal |-> "SIGINT"]
  ELSE [code |-> Null, signal |-> "SIGTERM"]

\* the 'exit' listener as it would be if it left the handle in childProcesses
exitHandler_nofilter(s, pid, c) ==
  LET how == s.procs[pid]
      r == CHOOSE x \in RunIds : s.runs[x].st = "exit" /\ s.runs[x].pid = pid
      s1 == [s EXCEPT !.procs[pid] = "free", !.last.exit = how]
      out == settle(StatusOf(how).code, StatusOf(how).signal)
  IN Resume(s1, r, IF out.ok THEN "ok" ELSE "err", c)

\* the 'exit' listener as it would be if the run remembered the stop() that
\* signalled its child, and ended with that child
exitHandler_latched(s, pid, c) ==
  LET how == s.procs[pid]
      r == CHOOSE x \in RunIds : s.runs[x].st = "exit" /\ s.runs[x].pid = pid
      s1 == [s EXCEPT !.childProcesses = SelectSeq(@, LAMBDA p : p # pid),
                      !.procs[pid] = "free", !.last.exit = how]
      out == settle(StatusOf(how).code, StatusOf(how).signal)
  IN IF how = "term"
     THEN EndRun(Log(s1, r, <<s1.runs[r].idx, "ok">>), r, "stopped", c)
     ELSE Resume(s1, r, IF out.ok THEN "ok" ELSE "err", c)

\* the child's 'exit' listener, then the run that awaits the promise
exitHandler(s, pid, c) ==
  LET how == s.procs[pid]
      r == CHOOSE x \in RunIds : s.runs[x].st = "exit" /\ s.runs[x].pid = pid
      s1 == [s EXCEPT !.childProcesses = SelectSeq(@, LAMBDA p : p # pid),
                      !.procs[pid] = "free", !.last.exit = how]
      out == settle(StatusOf(how).code, StatusOf(how).signal)
  IN Resume(s1, r, IF out.ok THEN "ok" ELSE "err", c)

NextIdx(pid) ==
  LET r == CHOOSE x \in RunIds : runs[x].st = "exit" /\ runs[x].pid = pid
  IN runs[r].idx + 1

ExitEvent ==
  \E pid \in Pids :
    /\ procs[pid] \in {"ok", "fail", "sig", "term"}
    /\ \E c \in StepInputs(IF procs[pid] = "fail" THEN MaxSteps + 1
                            ELSE NextIdx(pid)) :
         Commit(exitHandler(Event(St, "exit"), pid, c))

\* a continuation that is already queued: a rejected spawn, or a callback
\* that returned without a pending promise
Tick ==
  \E r \in RunIds :
    /\ runs[r].st = "tick"
    /\ \E c \in StepInputs(IF runs[r].res = "err" THEN MaxSteps + 1
                            ELSE runs[r].idx + 1) :
         Commit(Resume(Event(St, "tick"), r, runs[r].res, c))

\* the promise a callback step returned settles
CallbackSettle ==
  \E r \in RunIds, res \in {"ok", "err"} :
    /\ runs[r].st = "promise"
    /\ \E c \in StepInputs(IF res = "err" THEN MaxSteps + 1
                            ELSE runs[r].idx + 1) :
         Commit(Resume(Event(St, "settle"), r, res, c))

\* ---- the host outside the event loop -------------------------------------
\* a child process ends: by itself, or by a signal (a signalled one only so)
ProcEnd ==
  \E pid \in Pids, how \in {"ok", "fail", "sig", "term"} :
    /\ procs[pid] \in {"running", "killed"}
    /\ (procs[pid] = "killed") <=> (how = "term")
    /\ procs' = [procs EXCEPT ![pid] = how]
    /\ last' = [NoLast EXCEPT !.ev = "procEnd"]
    /\ UNCHANGED <<steps, outDir, resolvedIgnores, timer, stopping,
                   isRunningSteps, childProcesses, armed, fs, faults, runs, cmd,
                   cgVars>>

\* the bundler, the user or the operating system removes the directory or
\* the marker, or puts a marker of its own or a file there
RemoveOutDir ==
  /\ faults
  /\ fs' \in {"absent", "dir", "custom", "file"} \ {fs}
  /\ last' = [NoLast EXCEPT !.ev = "removeOutDir"]
  /\ UNCHANGED <<steps, outDir, resolvedIgnores, timer, stopping,
                 isRunningSteps, childProcesses, armed, procs, faults, runs,
                 cmd, cgVars>>

Next ==
  \/ Tick
  \/ ~Ticking /\ ConfigResolved
  \/ ~Ticking /\ ConfigureServer
  \/ ~Ticking /\ ServerClose
  \/ ~Ticking /\ BuildStart
  \/ ~Ticking /\ HandleHotUpdate
  \/ ~Ticking /\ TimerFire
  \/ ~Ticking /\ WriteBundle
  \/ ~Ticking /\ CloseBundle
  \/ ~Ticking /\ ExitEvent
  \/ ~Ticking /\ CallbackSettle
  \/ ~Ticking /\ ProcEnd

Spec == Init /\ [][Next]_vars

\* ---- the runner where the file-system calls of the guard may fail ----------
\* and the output directory or its marker may be removed at any time
InitFs ==
  /\ steps \in { q \in StepLists : Len(q) <= 1 }
  /\ outDir = <<>>
  /\ resolvedIgnores = <<>>
  /\ timer = 0
  /\ stopping = FALSE
  /\ isRunningSteps = FALSE
  /\ childProcesses = <<>>
  /\ armed = {}
  /\ procs = [p \in Pids |-> "free"]
  /\ fs = "absent"
  /\ faults = TRUE
  /\ runs = [r \in RunIds |-> FreeRunRec]
  /\ last = NoLast
  /\ cmd = NoCmd
  /\ files = [p \in InputPaths |-> Absent]
  /\ specHashCache = [p \in InputPaths |-> <<>>]
  /\ gens = [g \in GenIds |-> IdleGen]
  /\ seen = [p \in InputPaths |-> {}]
  /\ produced = [p \in InputPaths |-> {}]
  /\ gl = NoGl
  /\ committer = [p \in InputPaths |-> 0]

NextFs == Next \/ (~Ticking /\ RemoveOutDir)

SpecFs == InitFs /\ [][NextFs]_vars

\* ---- run(command) on its own, over every exit status -----------------------
CmdSpawn ==
  /\ cmd.st = "idle" /\ ~stopping
  /\ cmd' = [cmd EXCEPT !.st = "running"]
  /\ UNCHANGED <<steps, outDir, resolvedIgnores, timer, stopping,
                 isRunningSteps, childProcesses, armed, procs, fs, faults,
                 runs, last, cgVars>>

\* the process ends with a code or by a signal
CmdEnd ==
  /\ cmd.st = "running"
  /\ \E x \in ExitStatuses :
       cmd' = [cmd EXCEPT !.st = "ended", !.code = x.code,
                          !.signal = x.signal]
  /\ UNCHANGED <<steps, outDir, resolvedIgnores, timer, stopping,
                 isRunningSteps, childProcesses, armed, procs, fs, faults,
                 runs, last, cgVars>>

\* the 'exit' event is dispatched
CmdExit ==
  /\ cmd.st = "ended"
  /\ LET out == settle(cmd.code, cmd.signal)
     IN cmd' = [cmd EXCEPT !.st = "settled", !.ok = out.ok, !.err = out.err]
  /\ UNCHANGED <<steps, outDir, resolvedIgnores, timer, stopping,
                 isRunningSteps, childProcesses, armed, procs, fs, faults,
                 runs, last, cgVars>>

\* ---- the Orval step and its cache -----------------------------------------
\* createHash("sha256").update(content).digest("hex"): taken to be free of
\* collisions, and never equal to the content itself
sha256(content) == <<"sha256", content>>

\* the replacement character U+FFFD
Replacement == 65533

\* readFileSync(path, "utf-8"): the bytes decoded as UTF-8.  A byte below
\* 128 is its character; of the bytes in Contents the others are malformed
\* on their own, and each decodes to the replacement character.
utf8(bytes) ==
  [i \in DOMAIN bytes |-> IF bytes[i] < 128 THEN bytes[i] ELSE Replacement]

\* the action as it would be without the existsSync test: readFileSync throws
OrvalAction_noexists(g, input, rd) ==
  /\ gens[g].st = "idle"
  /\ IF files[input] = Absent \/ rd = "fail"
     THEN /\ gl' = [ev |-> "start", gen |-> g, input |-> input,
                    took |-> "readfail", cb |-> "throw"]
          /\ UNCHANGED <<gens, seen>>
     ELSE LET read == CHOOSE b \in files[input] : TRUE
              specContent == utf8(read)
              specHash == sha256(specContent)
              cachedHash == specHashCache[input]
          IN IF cachedHash = specHash
             THEN /\ gl' = [ev |-> "start", gen |-> g, input |-> input,
                            took |-> "unchanged", cb |-> "ok"]
                  /\ seen' = [seen EXCEPT ![input] = {read}]
                  /\ UNCHANGED gens
             ELSE /\ gl' = [ev |-> "start", gen |-> g, input |-> input,
                            took |-> "generate", cb |-> "pending"]
                  /\ gens' = [gens EXCEPT ![g] =
                                [st |-> "generating", input |-> input,
                                 read |-> read,
                                 specContent |-> specContent,
                                 specHash |-> specHash, src |-> {}]]
                  /\ UNCHANGED seen
  /\ UNCHANGED <<files, specHashCache, produced>>

\* the action as it would be if each step (told apart by g) kept a
\* cache of its own
OrvalAction_owncache(g, input, rd) ==
  /\ gens[g].st = "idle"
  /\ IF files[input] = Absent
     THEN /\ gl' = [ev |-> "start", gen |-> g, input |-> input,
                    took |-> "missing", cb |-> "ok"]
          /\ UNCHANGED <<gens, seen>>
     ELSE IF rd = "fail"
     THEN /\ gl' = [ev |-> "start", gen |-> g, input |-> input,
                    took |-> "readfail", cb |-> "throw"]
          /\ UNCHANGED <<gens, seen>>
     ELSE LET read == CHOOSE b \in files[input] : TRUE
              specContent == utf8(read)
              specHash == sha256(specContent)
              cachedHash == IF committer[input] = g THEN specHashCache[input]
                            ELSE <<>>
          IN IF cachedHash = specHash
             THEN /\ gl' = [ev |-> "start", gen |-> g, input |-> input,
                            took |-> "unchanged", cb |-> "ok"]
                  /\ seen' = [seen EXCEPT ![input] = {read}]
                  /\ UNCHANGED gens
             ELSE /\ gl' = [ev |-> "start", gen |-> g, input |-> input,
                            took |-> "generate", cb |-> "pending"]
                  /\ gens' = [gens EXCEPT ![g] =
                                [st |-> "generating", input |-> input,
                                 read |-> read,
                                 specContent |-> specContent,
                                 specHash |-> specHash, src |-> {}]]
                  /\ UNCHANGED seen
  /\ UNCHANGED <<files, specHashCache, produced>>

\* the action of Orval({input, output}) up to its await: invocation g starts
OrvalAction(g, input, rd) ==
  /\ gens[g].st = "idle"
  /\ IF files[input] = Absent
     THEN /\ gl' = [ev |-> "start", gen |-> g, input |-> input,
                    took |-> "missing", cb |-> "ok"]
          /\ UNCHANGED <<gens, seen>>
     ELSE IF rd = "fail"
     THEN /\ gl' = [ev |-> "start", gen |-> g, input |-> input,
                    took |-> "readfail", cb |-> "throw"]
          /\ UNCHANGED <<gens, seen>>
     ELSE LET read == CHOOSE b \in files[input] : TRUE
              specContent == utf8(read)
              specHash == sha256(specContent)
              cachedHash == specHashCache[input]
          IN IF cachedHash = specHash
             THEN /\ gl' = [ev |-> "start", gen |-> g, input |-> input,
                            took |-> "unchanged", cb |-> "ok"]
                  /\ seen' = [seen EXCEPT ![input] = {read}]
                  /\ UNCHANGED gens
             ELSE /\ gl' = [ev |-> "start", gen |-> g, input |-> input,
                            took |-> "generate", cb |-> "pending"]
                  /\ gens' = [gens EXCEPT ![g] =
                                [st |-> "generating", input |-> input,
                                 read |-> read,
                                 specContent |-> specContent,
                                 specHash |-> specHash, src |-> {}]]
                  /\ UNCHANGED seen
  /\ UNCHANGED <<files, specHashCache, produced>>

\* generate({input, output}) is given the path, not the content the action
\* has hashed: it reads the file itself, at some time after it was called
generateReads(g) ==
  /\ gens[g].st = "generating"
  /\ files[gens[g].input] # Absent
  /\ gens' = [gens EXCEPT ![g].st = "read", ![g].src = files[gens[g].input]]
  /\ gl' = [ev |-> "read", gen |-> g, input |-> gens[g].input,
            took |-> "none", cb |-> "pending"]
  /\ UNCHANGED <<files, specHashCache, seen, produced>>

\* the promise of generate() settles and the action goes on after its await;
\* where the read of generate() has been followed, the output it has written
\* is from what it read
generateSettles(g, res) ==
  /\ gens[g].st \in {"generating", "read"}
  /\ IF res = "ok"
     THEN /\ specHashCache' = [specHashCache EXCEPT
                                 ![gens[g].input] = gens[g].specHash]
          /\ seen' = [seen EXCEPT ![gens[g].input] = {gens[g].read}]
          /\ produced' = IF gens[g].st = "read"
                         THEN [produced EXCEPT ![gens[g].input] = gens[g].src]
                         ELSE produced
          /\ gl' = [ev |-> "settle", gen |-> g, input |-> gens[g].input,
                    took |-> "done", cb |-> "ok"]
     ELSE /\ gl' = [ev |-> "settle", gen |-> g, input |-> gens[g].input,
                    took |-> "failed", cb |-> "throw"]
          /\ UNCHANGED <<specHashCache, seen, produced>>
  /\ gens' = [gens EXCEPT ![g] = IdleGen]
  /\ UNCHANGED files

OrvalStart ==
  /\ \E g \in GenIds, input \in InputPaths, rd \in {"ok", "fail"} :
       /\ \A x \in GenIds : x < g => gens[x].st # "idle"
       /\ OrvalAction(g, input, rd)
  /\ UNCHANGED <<runnerVars, cmd, committer>>

GenerateReads ==
  /\ \E g \in GenIds : generateReads(g)
  /\ UNCHANGED <<runnerVars, cmd, committer>>

GenerateSettles ==
  /\ \E g \in GenIds, res \in {"ok", "err"} : generateSettles(g, res)
  /\ UNCHANGED <<runnerVars, cmd, committer>>

\* somebody (the OpenAPI step, an editor) writes or removes an input file
FileWrite ==
  /\ \E input \in InputPaths,
         content \in {{b} : b \in Contents} \cup {Absent} :
       /\ files[input] # content
       /\ files' = [files EXCEPT ![input] = content]
       /\ gl' = [NoGl EXCEPT !.ev = "write", !.input = input]
  /\ UNCHANGED <<specHashCache, gens, seen, produced>>
  /\ UNCHANGED <<runnerVars, cmd, committer>>

InitGen == Init /\ steps = <<"callback">>

NextGen == OrvalStart \/ GenerateSettles \/ FileWrite

SpecGen == InitGen /\ [][NextGen]_vars

\* ---- the Orval step with the generator's own read of the input ------------
\* one input path, contents that are well-formed UTF-8; generate() resolves
\* only when it has read its input
OutPath == "p"
OutContents == {<<65>>, <<66>>}

InitOut == Init /\ steps = <<"callback">>

NextOut ==
  \/ OrvalStart /\ gl'.input = OutPath
  \/ GenerateReads
  \/ GenerateSettles /\ (gl'.took = "done" => gens[gl'.gen].st = "read")
  \/ FileWrite /\ gl'.input = OutPath
               /\ files'[OutPath] \subseteq OutContents

SpecOut == InitOut /\ [][NextOut]_vars

\* ---- two Orval steps on one input path, beside stop() and reset() ---------
\* the invocations are told apart: invocation g is the action of step g of
\* the list (or of the step of plugin instance g); both name the same input
\* and each has an output of its own
OrvalStartOf ==
  /\ \E g \in GenIds, rd \in {"ok", "fail"} : OrvalAction(g, OutPath, rd)
  /\ UNCHANGED <<runnerVars, cmd, committer>>

GenerateSettlesOf ==
  /\ \E g \in GenIds, res \in {"ok", "err"} :
       /\ generateSettles(g, res)
       /\ committer' = IF res = "ok"
                       THEN [committer EXCEPT ![gens[g].input] = g]
                       ELSE committer
  /\ UNCHANGED <<runnerVars, cmd>>

InitCache == Init /\ steps = <<"callback", "callback">>

NextCache ==
  \/ OrvalStartOf
  \/ GenerateSettlesOf
  \/ FileWrite /\ gl'.input = OutPath
               /\ files'[OutPath] \subseteq OutContents
  \/ ConfigResolved
  \/ ServerClose
  \/ CloseBundle

SpecCache == InitCache /\ [][NextCache]_vars

InitExit == Init /\ steps = <<"shell">>

NextExit == CmdSpawn \/ CmdEnd \/ CmdExit

SpecExit == InitExit /\ [][NextExit]_vars

TypeOK ==
  /\ steps \in StepLists
  /\ timer \in {0} \cup TimerIds
  /\ stopping \in BOOLEAN /\ isRunningSteps \in BOOLEAN
  /\ armed \subseteq TimerIds
  /\ fs \in {"absent", "dir", "marked", "custom", "file"}
  /\ Range(childProcesses) \subseteq {0} \cup Pids
  /\ \A p \in Pids : procs[p] \in ProcStates
  /\ \A r \in RunIds : runs[r].st \in {"free", "exit", "promise", "tick"}
\* ---- the properties ---------------------------------------------------------
InFlight == { r \in RunIds : runs[r].st # "free" }
TriggerEvs == {"buildStart", "timerFire"}
RunStarts == \E r \in RunIds : runs[r].st = "free" /\ runs'[r].st # "free"

\* the log of a run that has started step k: the steps before it, each
\* started and then settled well, in list order
StartedLog(k) ==
  [i \in 1..(2 * k - 1) |-> IF i % 2 = 1 THEN <<(i + 1) \div 2, "start">>
                            ELSE <<i \div 2, "ok">>]

\* C1: at most one invocation of runAllSteps is between its start and its
\* end at any instant, whatever the interleaving of buildStart, file changes,
\* timer firings, stop() and reset().
C1_AtMostOneRunInFlight == Cardinality(InFlight) <= 1

\* C2: within a run the steps start in list order, each one once, and step
\* k+1 starts only after step k has settled; a run awaits one step at a time,
\* and the child it awaits exists.
C2_StepsInOrder ==
  /\ \A r \in InFlight :
        /\ runs[r].idx \in 1..Len(steps)
        /\ runs[r].log = StartedLog(runs[r].idx)
        /\ runs[r].st = "exit" => procs[runs[r].pid] # "free"
  /\ last.run # 0 =>
        \/ last.log = <<>> /\ Len(steps) = 0
        \/ \E k \in 1..Len(steps), e \in {"ok", "fail"} :
              last.log = Append(StartedLog(k), <<k, e>>)

C2_Witness ==
  \E r \in InFlight : runs[r].idx = 2 /\ runs[r].st \in {"exit", "promise"}

\* C3: the file changes of one burst (each arriving before the timer of the
\* one before it is due) leave one timer to fire, the one the last change
\* armed.  Two timers that are armed at once were armed by changes of one
\* burst, so the claim is that no two timers are armed at once.
C3_OneTimerPerBurst ==
  /\ Cardinality(armed) <= 1
  /\ timer # 0 => timer \in armed

\* C4: a trigger that finds a run in flight changes nothing, hands no error
\* to the host and leaves nothing queued: a run record comes into being only
\* in the task of a trigger that was taken.
C4_DroppedNotQueued ==
  [][ /\ (isRunningSteps /\ ~stopping /\ last'.ev \in TriggerEvs) =>
            /\ last'.took = "running"
            /\ last'.host \in {"none", "resolved"}
            /\ runs' = runs /\ procs' = procs
            /\ childProcesses' = childProcesses
            /\ isRunningSteps' /\ ~stopping'
      /\ RunStarts => last'.ev \in TriggerEvs /\ last'.took = "started"
    ]_vars

C4_Witness == last.took = "running" /\ InFlight # {}

\* C5: when step k of a run fails the run ends there: its log is the steps
\* before k as successes and then the failure of k, no later step starts, and
\* no run in flight has a failure behind it.
C5_FailureAborts ==
  /\ [](/\ \A r \in InFlight : \A i \in 1..Len(runs[r].log) :
                                  runs[r].log[i][2] # "fail"
        /\ last.result = "failed" =>
              /\ \E k \in 1..Len(steps) :
                    last.log = Append(StartedLog(k), <<k, "fail">>)
              /\ runs[last.run].st = "free")
  /\ [][\A r \in RunIds :
          (\/ runs[r].st = "exit" /\ procs[runs[r].pid] = "fail"
                /\ procs'[runs[r].pid] # "fail"
           \/ runs[r].st = "tick" /\ runs[r].res = "err") =>
             /\ last'.result = "failed" /\ last'.run = r
             /\ last'.log = Append(runs[r].log, <<runs[r].idx, "fail">>)
             /\ runs'[r].st = "free"
       ]_vars

C5_Witness ==
  /\ last.result = "failed" /\ Len(steps) = 2
  /\ last.log = <<<<1, "start">>, <<1, "fail">>>>

C7_FailureReachesHost ==
  /\ last.result = "failed" => last.host = "rejected"
  /\ last.host \in {"rejected", "unhandledRejection"} =>
        last.result = "failed"

\* C8: when the child that stop() signalled while it ran exits, its step
\* settles without an error, the run ends there without starting a later
\* step, and the host gets no failure.
C8_StopEndsRun ==
  [][\A r \in RunIds :
        (runs[r].st = "exit" /\ procs[runs[r].pid] = "term"
           /\ procs'[runs[r].pid] # "term") =>
           /\ runs'[r].st = "free"
           /\ last'.run = r /\ last'.result \in {"stopped", "completed"}
           /\ last'.host \in {"none", "resolved"}
    ]_vars

\* C9: no task that finds stopping set spawns a child, and the task in which
\* stop() sets it signals every child then tracked.
C9_NoSpawnWhileStopping ==
  [][ /\ stopping =>
            /\ \A p \in Pids : procs[p] = "free" => procs'[p] = "free"
            /\ Len(childProcesses') <= Len(childProcesses)
      /\ (~stopping /\ stopping') =>
            /\ \A p \in Range(childProcesses) \ {0} :
                  /\ \E sig \in {"SIGTERM", "SIGKILL"} : <<p, sig>> \in last'.kills
                  /\ procs[p] = "running" => procs'[p] = "killed"
            /\ childProcesses' = <<>>
    ]_vars

C9_Witness == stopping /\ last.kills # {} /\ \E p \in Pids : procs[p] = "killed"

\* C10: while stopping is set no buildStart, file change or timer firing
\* starts a step, spawns a child or arms a timer, and only reset() clears
\* stopping; reset() leaves both flags clear, and a trigger that finds both
\* clear starts a run.
C10_StoppedUntilReset ==
  [][ /\ (stopping /\ last'.ev \in TriggerEvs \cup {"handleHotUpdate"}) =>
            /\ runs' = runs /\ procs' = procs
            /\ childProcesses' = childProcesses
            /\ armed' \subseteq armed /\ timer' = 0
            /\ last'.took \in {"stopping", "cancelled", "nosteps"}
            /\ last'.host \in {"none", "resolved"}
      /\ (stopping /\ ~stopping') => last'.ev = "configResolved"
      /\ last'.ev = "configResolved" => ~stopping' /\ ~isRunningSteps'
      /\ (last.ev = "configResolved" /\ last'.ev \in TriggerEvs
            /\ Len(steps) > 0) => RunStarts /\ last'.took = "started"
    ]_vars

C10_Witness == stopping /\ last.ev = "timerFire" /\ last.took = "cancelled"

\* C11: stop() is idempotent: a stop() leaves stopping set, and a stop() that
\* finds stopping set already sends no signal and changes nothing of the
\* runner, of the timers or of the processes; so stop(); stop() leaves what
\* one stop() leaves.
StopEvs == {"serverClose", "closeBundle"}

C11_StopIdempotent ==
  [][ /\ last'.ev \in StopEvs => stopping'
      /\ (stopping /\ last'.ev \in StopEvs) =>
            /\ last'.kills = {}
            /\ UNCHANGED <<timer, stopping, isRunningSteps, childProcesses,
                           armed, procs, runs, outDir, resolvedIgnores>>
    ]_vars

C11_Witness ==
  /\ stopping /\ last.ev \in {"serverClose", "closeBundle"}
  /\ last.took = "stopped" /\ last.kills = {}
  /\ \E p \in Pids : procs[p] = "killed"

\* C12: after stop() has returned no debounce timer is armed, so that no file
\* change scheduled before the stop() can bring a run about.
C12_NoTimerAfterStop ==
  last.ev \in StopEvs => timer = 0 /\ armed = {}

\* C13: after reset() has returned stopping and isRunningSteps are false,
\* childProcesses is empty and no debounce timer is pending: none is armed
\* that could fire a trigger afterwards.
C13_ResetClearsTimer ==
  last.ev = "configResolved" =>
     /\ ~stopping /\ ~isRunningSteps /\ childProcesses = <<>>
     /\ timer = 0 /\ armed = {}

\* C14: run(command) settles by how the child ends: exit code 0 resolves, a
\* non-zero code rejects with an error that carries that code, and an end by
\* a signal resolves.
C14_SettlesByExit ==
  cmd.st = "settled" =>
     /\ cmd.signal # "none" => cmd.ok /\ cmd.err = <<>>
     /\ (cmd.signal = "none" /\ cmd.code = 0) => cmd.ok /\ cmd.err = <<>>
     /\ (cmd.signal = "none" /\ cmd.code # 0) =>
            ~cmd.ok /\ Len(cmd.err) = 2 /\ cmd.err[2] = cmd.code

C14_Witness ==
  cmd.st = "settled" /\ cmd.signal = "none" /\ cmd.code = 2 /\ ~cmd.ok

\* C15: when the 'exit' event of a child that ended by a signal is dispatched
\* while stopping is false, the step counts as a success: it is logged so, no
\* error reaches the host, and the run goes on to its next step, or completes
\* when that step was the last.
C15_SignalExitIsSuccess ==
  [][\A r \in RunIds :
        (/\ ~stopping /\ runs[r].st = "exit"
         /\ procs[runs[r].pid] \in {"sig", "term"}
         /\ last'.ev = "exit" /\ last'.exit = procs[runs[r].pid]
         /\ procs'[runs[r].pid] # procs[runs[r].pid]) =>
           LET k == runs[r].idx
           IN /\ last'.result # "failed"
              /\ last'.host \notin {"rejected", "unhandledRejection"}
              /\ IF k < Len(steps)
                 THEN /\ runs'[r].st # "free" /\ runs'[r].idx = k + 1
                      /\ runs'[r].log = runs[r].log \o
                                          <<<<k, "ok">>, <<k + 1, "start">>>>
                 ELSE /\ last'.run = r /\ last'.result = "completed"
                      /\ last'.log = Append(runs[r].log, <<k, "ok">>)
    ]_vars

C15_Witness ==
  /\ last.ev = "exit" /\ last.exit = "sig" /\ ~stopping
  /\ \E r \in RunIds : runs[r].idx = 2 /\ runs[r].st # "free"
                        /\ runs[r].log = StartedLog(2)

\* C16: an invocation that reads the content which the last invocation that
\* ended well had read does not call the generator; one that reads any other
\* content, be it one byte that differs, calls it; and a skip as unchanged
\* happens only when the hash of what was just read is the hash stored for
\* the path.
C16_SkipIffUnchanged ==
  [][(gl'.ev = "start" /\ files[gl'.input] # Absent
        /\ gl'.took # "readfail") =>
        LET p == gl'.input
        IN /\ gl'.took \in {"unchanged", "generate"}
           /\ gl'.took = "unchanged" <=> seen[p] = files[p]
           /\ gl'.took = "unchanged" =>
                 \A b \in files[p] : specHashCache[p] = sha256(utf8(b))
    ]_vars

\* C17: the cache entry of a path is written only when a generation for that
\* path has ended well, with the hash that invocation computed; a generation
\* that fails leaves the cache as it was, and the next invocation on the
\* content it had read calls the generator again.
C17_CacheOnlyAfterSuccess ==
  [][ /\ \A p \in InputPaths :
            specHashCache'[p] # specHashCache[p] =>
               /\ gl'.ev = "settle" /\ gl'.took = "done" /\ gl'.input = p
               /\ specHashCache'[p] = gens[gl'.gen].specHash
      /\ gl'.took = "failed" =>
            /\ specHashCache' = specHashCache
            /\ specHashCache'[gl'.input] # gens[gl'.gen].specHash
    ]_vars

\* C18: an invocation that finds no input file returns without an error,
\* starts no generation and leaves the cache as it was.
C18_MissingInputSkips ==
  [][(gl'.ev = "start" /\ files[gl'.input] = Absent) =>
        /\ gl'.took = "missing" /\ gl'.cb = "ok"
        /\ UNCHANGED <<gens, specHashCache, files>>
    ]_vars

C18_Witness ==
  /\ gl.ev = "start" /\ gl.took = "missing" /\ files[gl.input] = Absent
  /\ specHashCache[gl.input] # <<>>

\* C19: in every state of the directory, and whatever file-system call fails
\* there, the guard called twice in a row leaves what it leaves when called
\* once; where no call fails and outDir is set it leaves the directory with
\* its marker; and it changes nothing but the directory and the marker.
C19_EnsureIdempotent ==
  \A r \in {"ok", "mkdirfail", "writefail"} :
     LET c == [Quiet EXCEPT !.fsr = r]
         once == ensureOutDirAndGitignore(St, c)
         twice == ensureOutDirAndGitignore(once, c)
     IN /\ twice = once
        /\ (r = "ok" /\ outDir # <<>>) =>
              once.fs = IF fs \in {"absent", "dir"} THEN "marked" ELSE fs
        /\ outDir = <<>> => once.fs = fs
        /\ [once EXCEPT !.fs = fs] = St

C19_Witness ==
  /\ outDir # <<>> /\ fs = "dir" /\ last.ev = "writeBundle"

\* C20: the Output Guard never raises to its caller. Whatever is at the
\* output path, whether outDir is set or not and whether mkdirSync or
\* writeFileSync throws, every lifecycle handler and every continuation of a
\* pipeline run leaves, apart from the disk, the state it would leave if
\* outDir were set and the directory and its marker were in place.
GuardSucceeds(s) == [s EXCEPT !.outDir = OutDirPath, !.fs = "marked"]
AsIfSucceeded(got, want) ==
  [got EXCEPT !.fs = "marked", !.outDir = want.outDir] = want
NoFault(c) == [c EXCEPT !.fsr = "ok"]
C20_GuardNeverRaises ==
  /\ \A c \in FsInputs :
       /\ AsIfSucceeded(ensureOutDirAndGitignore(St, c), GuardSucceeds(St))
       /\ \A ev \in {"configureServer", "writeBundle"} :
             AsIfSucceeded(ensureOutDirAndGitignore(Event(St, ev), c),
                           GuardSucceeds(Event(St, ev)))
       /\ \A file \in Files :
             (armed \ {timer}) # TimerIds =>
               AsIfSucceeded(
                 handleHotUpdate(Event(St, "handleHotUpdate"), file, c),
                 handleHotUpdate(GuardSucceeds(Event(St, "handleHotUpdate")),
                                 file, NoFault(c)))
  /\ \A c \in KillInputs :
       AsIfSucceeded(
         stop(ensureOutDirAndGitignore(Event(St, "closeBundle"), c), c),
         stop(GuardSucceeds(Event(St, "closeBundle")), NoFault(c)))
  /\ (~stopping => HasFreeRun) =>
       \A c \in StepInputs(IF isRunningSteps THEN MaxSteps + 1 ELSE 1) :
         /\ AsIfSucceeded(
              buildStart(Event(St, "buildStart"), c),
              buildStart(GuardSucceeds(Event(St, "buildStart")), NoFault(c)))
         /\ \A t \in armed :
              LET s == [Event(St, "timerFire") EXCEPT !.armed = @ \ {t}]
              IN AsIfSucceeded(timerCallback(s, c),
                               timerCallback(GuardSucceeds(s), NoFault(c)))
  /\ \A r \in RunIds :
       /\ runs[r].st = "tick" =>
            \A c \in StepInputs(IF runs[r].res = "err" THEN MaxSteps + 1
                                 ELSE runs[r].idx + 1) :
              AsIfSucceeded(
                Resume(Event(St, "tick"), r, runs[r].res, c),
                Resume(GuardSucceeds(Event(St, "tick")), r, runs[r].res,
                       NoFault(c)))
       /\ runs[r].st = "promise" =>
            \A res \in {"ok", "err"} :
              \A c \in StepInputs(IF res = "err" THEN MaxSteps + 1
                                   ELSE runs[r].idx + 1) :
                AsIfSucceeded(
                  Resume(Event(St, "settle"), r, res, c),
                  Resume(GuardSucceeds(Event(St, "settle")), r, res,
                         NoFault(c)))
  /\ \A pid \in Pids :
       procs[pid] \in {"ok", "fail", "sig", "term"} =>
         \A c \in StepInputs(IF procs[pid] = "fail" THEN MaxSteps + 1
                              ELSE NextIdx(pid)) :
           AsIfSucceeded(
             exitHandler(Event(St, "exit"), pid, c),
             exitHandler(GuardSucceeds(Event(St, "exit")), pid, NoFault(c)))

\* a step has run to its end and the run has completed although the guard
\* could not create the directory
C20_Witness ==
  /\ last.ev \in {"exit", "settle"}
  /\ last.result = "completed"
  /\ last.host # "unhandledRejection"
  /\ outDir # <<>>
  /\ fs \in {"absent", "file"}

\* C21: a file change whose path contains one of the resolved ignore patterns
\* schedules nothing: no timer is armed, the pending timer is neither cleared
\* nor armed anew, and no run, process or flag changes.  A path that contains
\* none of them arms a timer when stopping is not set.
Ignored(file) ==
  \E i \in DOMAIN resolvedIgnores : includes(file, resolvedIgnores[i])

C21_IgnoredSchedulesNothing ==
  \A file \in Files :
     LET s == Event(St, "handleHotUpdate")
     IN /\ Ignored(file) =>
             LET after == handleHotUpdate(s, file, Quiet)
             IN /\ after.timer = timer /\ after.armed = armed
                /\ after.last.took \in {"ignored", "stopping"}
                /\ [after EXCEPT !.fs = fs, !.last = s.last] = s
        /\ (~Ignored(file) /\ ~stopping /\ (armed \ {timer}) # TimerIds) =>
             LET after == handleHotUpdate(s, file, Quiet)
             IN /\ after.last.took = "armed"
                /\ after.timer # 0 /\ after.timer \in after.armed
                /\ timer \notin after.armed \ {after.timer}

\* an ignored change has come while a timer was pending, and the timer is
\* still armed
C21_Witness ==
  /\ last.ev = "handleHotUpdate" /\ last.took = "ignored"
  /\ timer # 0 /\ timer \in armed

SettleEvs == {"exit", "tick", "settle"}

RunsCommand(r) ==
  /\ runs[r].st \in {"exit", "tick"} /\ runs[r].res # "skip"
  /\ runs[r].idx \in 1..Len(steps) /\ steps[runs[r].idx] = "shell"

C23_SettledOnlyByExit ==
  [][\A r \in RunIds :
        (RunsCommand(r) /\ runs'[r] # runs[r]) => last'.ev = "exit"
    ]_vars

\* C23 amended: a run(command) whose child was spawned is settled in the task
\* of that child's 'exit' event and in no other, once, also when stop() has
\* come meanwhile: stop() and every other task leave the awaiting run as it
\* is; a run(command) whose spawn failed is settled by the 'error' listener,
\* as a failure, and by nothing else.
C23_OnePathPerOutcome ==
  [][\A r \in RunIds :
        /\ (runs[r].st = "exit" /\ runs'[r] # runs[r]) =>
              LET k == runs[r].idx
                  pid == runs[r].pid
                  now == IF runs'[r].st = "free" /\ last'.run = r
                         THEN last'.log ELSE runs'[r].log
              IN /\ last'.ev = "exit"
                 /\ procs[pid] \in {"ok", "fail", "sig", "term"}
                 /\ procs'[pid] = "free" \/ runs'[r].pid = pid
                 /\ last'.exit = procs[pid]
                 /\ Len(now) > Len(runs[r].log)
                 /\ SubSeq(now, 1, Len(runs[r].log)) = runs[r].log
                 /\ now[Len(runs[r].log) + 1] =
                       <<k, IF procs[pid] = "fail" THEN "fail" ELSE "ok">>
                 /\ \A i \in (Len(runs[r].log) + 2)..Len(now) : now[i][1] # k
        /\ (RunsCommand(r) /\ runs[r].st = "tick" /\ runs'[r] # runs[r]) =>
              /\ last'.ev = "tick" /\ runs[r].res = "err" /\ runs[r].pid = 0
              /\ last'.run = r /\ last'.result = "failed"
    ]_vars

\* stop() came while the command ran, and the promise has been settled by the
\* exit event of the signalled child
C23_Witness ==
  /\ last.ev = "exit" /\ last.exit = "term" /\ stopping
  /\ last.run # 0 /\ last.result \in {"stopped", "completed"}

\* C24: the command is spawned as the leader of a process group of its own,
\* and every signal the runner sends to a child is the graceful one, sent to
\* that group: a forced kill is sent only where the graceful one could not be
\* delivered, and a child that is running when it is signalled has a group to
\* deliver it to.
C24_GracefulToOwnGroup ==
  \A k \in last.kills :
     procs[k[1]] = "killed" => k[2] = "SIGTERM"

\* C25: a child that has been spawned and has not ended is tracked in
\* childProcesses, and every tracked handle is the handle of a spawned child
\* some run(command) still waits for: no handle stays behind when its
\* run(command) has settled.
C25_TrackedWhileAlive ==
  /\ \A p \in Pids : procs[p] \in {"running", "killed"} =>
                        p \in Range(childProcesses)
  /\ \A i \in 1..Len(childProcesses) :
        \E r \in RunIds : RunsCommand(r) /\ runs[r].pid = childProcesses[i]

\* C26: a signal is sent only by stop(), only to a child that is tracked,
\* whose 'exit' event has not been dispatched and that no earlier stop() has
\* signalled: once the exit listener has removed a handle, or a stop() has
\* signalled it, no later stop() sends it a signal.
C26_NoSignalAfterRemoval ==
  [][\A k \in last'.kills :
        /\ last'.ev \in StopEvs
        /\ k[1] \in Range(childProcesses)
        /\ procs[k[1]] \in {"running", "ok", "fail", "sig"}
        /\ k[1] \notin Range(childProcesses')
    ]_vars

\* a later stop() signals the child of a new run and not the child an
\* earlier stop() had signalled, which has not ended yet
C26_Witness ==
  /\ last.ev \in StopEvs /\ last.kills # {}
  /\ \E p \in Pids : /\ procs[p] = "killed"
                     /\ \A k \in last.kills : k[1] # p

\* C27: the guard is invoked after the action of a step has settled, whether
\* it succeeded or failed: whenever the directory or its marker has gone
\* while the step ran, outDir is set and no file-system call fails, the task
\* in which the step settles leaves the directory with its marker.
Guarded(after) ==
  (outDir # <<>> /\ fs \in {"absent", "dir"}) => after.fs = "marked"

C27_GuardAfterEveryStep ==
  \A r \in RunIds :
     /\ runs[r].st = "promise" =>
          \A res \in {"ok", "err"} :
             Guarded(Resume(Event(St, "settle"), r, res, Quiet))
     /\ (runs[r].st = "exit"
           /\ procs[runs[r].pid] \in {"ok", "fail", "sig", "term"}) =>
          Guarded(exitHandler(Event(St, "exit"), runs[r].pid, Quiet))

\* C28: whenever an invocation skips as unchanged, the content the input
\* file has then is the content the generator had read in the last generation
\* for that path that wrote output.
C28_SkipMeansOutputCurrent ==
  (gl.ev = "start" /\ gl.took = "unchanged") =>
     files[gl.input] = produced[gl.input]

\* C29: a stop() that comes while a callback step is executing leaves the
\* step as it is, awaited until its promise settles; and when that promise
\* settles the run ends there, with no further step started.  A run that
\* awaits a callback while stopping is set has had the stop() come during
\* that step (no step starts while stopping is set), and so has one that
\* awaits it right after a reset() that found stopping set.
StoppedDuringStep ==
  stopping \/ (last.ev = "configResolved" /\ last.took = "unstopped")

C29_CallbackRunsOutThenEnds ==
  [][\A r \in RunIds :
        runs[r].st = "promise" =>
           /\ last'.ev \in StopEvs => runs'[r] = runs[r]
           /\ runs'[r] # runs[r] => last'.ev = "settle"
           /\ (StoppedDuringStep /\ runs'[r] # runs[r]) =>
                 /\ runs'[r].st = "free" /\ last'.run = r
                 /\ Len(last'.log) = Len(runs[r].log) + 1
    ]_vars

\* C30: no task of the plugin removes the output directory or a marker, and
\* none writes a marker that exists: a marker that is there before the task,
\* the guard's own or one of other content, is there unchanged after it, a
\* file in the directory's place stays, and what is new after the task is the
\* directory, or the directory and the guard's marker.
Kept(before, after) ==
  /\ before \in {"marked", "custom", "file"} => after = before
  /\ before = "dir" => after \in {"dir", "marked"}
  /\ before = "absent" => after \in {"absent", "dir", "marked"}

C30_GuardOnlyAdds ==
  [][last'.ev # "removeOutDir" => Kept(fs, fs')]_vars

\* the guard has run where a marker of other content was in place
C30_Witness ==
  /\ outDir # <<>> /\ fs = "custom"
  /\ last.ev \in {"writeBundle", "closeBundle", "handleHotUpdate"}

\* C31: the host events map to the operations of the runner in every state of
\* the runner: configResolved sets the configuration, performs reset() and
\* then the Output Guard; the close event of the dev server performs stop(),
\* and closeBundle performs stop() (after the guard); buildStart leaves, on
\* every occurrence, what the guard followed by trigger() leaves, so that it
\* is trigger() that runs or drops.
Runner(s) ==
  [s EXCEPT !.last = [NoLast EXCEPT !.ev = s.last.ev, !.host = s.last.host,
                                    !.kills = s.last.kills]]

C31_HostEventsMap ==
  [][ /\ last'.ev = "configResolved" =>
            /\ \E c \in FsInputs :
                  St' = ensureOutDirAndGitignore(
                          reset([Event(St, "configResolved") EXCEPT
                                   !.outDir = OutDirPath,
                                   !.resolvedIgnores =
                                      [i \in DOMAIN ignore |->
                                         resolve(Cwd, ignore[i])]]), c)
            /\ ~stopping' /\ ~isRunningSteps' /\ timer' = 0
            /\ childProcesses' = <<>> /\ fs' = "marked"
      /\ last'.ev = "serverClose" =>
            /\ \E c \in KillInputs : St' = stop(Event(St, "serverClose"), c)
            /\ stopping' /\ timer' = 0 /\ childProcesses' = <<>>
      /\ last'.ev = "closeBundle" =>
            /\ \E c \in KillInputs :
                  St' = stop(ensureOutDirAndGitignore(
                               Event(St, "closeBundle"), c), c)
            /\ stopping' /\ timer' = 0 /\ childProcesses' = <<>>
      /\ last'.ev = "buildStart" =>
            /\ \E c \in StepInputs(IF isRunningSteps THEN MaxSteps + 1 ELSE 1) :
                  Runner(St') =
                    Runner(runAllSteps(
                             ensureOutDirAndGitignore(
                               Event(St, "buildStart"), c), "buildStart", c))
            /\ (~stopping /\ ~isRunningSteps /\ Len(steps) > 0) =>
                  RunStarts /\ last'.took = "started"
            /\ (stopping \/ isRunningSteps) =>
                  /\ runs' = runs /\ last'.host = "resolved"
                  /\ last'.took \in {"stopping", "running", "nosteps"}
    ]_vars

\* buildStart has come while stop() had been called during a run: trigger()
\* was invoked and dropped the request
C31_Witness ==
  /\ last.ev = "buildStart" /\ last.took = "stopping"
  /\ stopping /\ isRunningSteps /\ InFlight # {}

\* C32: isRunningSteps reflects the runner: in every reachable state it is
\* true exactly when some run has started and has not yet ended.
C32_FlagMatchesRuns ==
  isRunningSteps <=> InFlight # {}

\* C33: at most one debounce timer is armed at any time: the task that arms
\* a timer leaves that timer as the only one armed, the one armed before it
\* cancelled, in every sequence of file changes, timer firings, stop() and
\* reset().
C33_ArmingCancelsPrevious ==
  [][ /\ last'.took = "armed" => armed' = {timer'}
      /\ Cardinality(armed') <= 1
    ]_vars

\* C34: a child that is running when reset() is called is dropped from
\* childProcesses without a signal, and no later stop() signals it: reset()
\* sends no signal, empties the list and leaves every process as it is; and
\* a running child that is not tracked (reset() is the only way to be so) is
\* never tracked again and never signalled, by stop() or any other task.
Untracked(p) == procs[p] = "running" /\ p \notin Range(childProcesses)

C34_ResetDropsUnsignalled ==
  [][ /\ last'.ev = "configResolved" =>
            /\ last'.kills = {} /\ childProcesses' = <<>>
            /\ procs' = procs
      /\ \A p \in Pids :
            (~Untracked(p) /\ Untracked(p)') => last'.ev = "configResolved"
      /\ \A p \in Pids :
            Untracked(p) =>
               /\ \A k \in last'.kills : k[1] # p
               /\ p \notin Range(childProcesses')
               /\ procs'[p] # "killed"
    ]_vars

\* stop() has been called after a reset() that dropped a running child: the
\* newer child has been signalled, the dropped one runs on
C34_Witness ==
  /\ last.ev \in StopEvs /\ stopping /\ last.kills # {}
  /\ \E p \in Pids : Untracked(p)

\* C35: the stop check of a run reads the stopping flag as it is when the
\* awaited step has settled.  When stop() and then reset() have both come
\* while the step was awaited (the child of a shell step has been ended by
\* the signal of stop() and stopping is clear again; or reset() has just
\* found stopping set while a callback was awaited), the run does not end
\* with that step: when the step has settled, without an error of its own, the
\* run starts the next of its remaining steps, or completes when none remains.
GoesOn(r) ==
  LET k == runs[r].idx
  IN IF k < Len(steps)
     THEN /\ runs'[r].st # "free" /\ runs'[r].idx = k + 1
          /\ runs'[r].log = runs[r].log \o <<<<k, "ok">>, <<k + 1, "start">>>>
     ELSE /\ runs'[r].st = "free" /\ last'.run = r
          /\ last'.result = "completed"

C35_StopCheckReadsCurrentFlag ==
  [][\A r \in RunIds :
        /\ (/\ runs[r].st = "exit" /\ procs[runs[r].pid] = "term" /\ ~stopping
            /\ last'.ev = "exit" /\ procs'[runs[r].pid] # "term") =>
              /\ last'.exit = "term" /\ GoesOn(r)
        /\ (/\ runs[r].st = "promise"
            /\ last.ev = "configResolved" /\ last.took = "unstopped"
            /\ last'.ev = "settle" /\ runs'[r] # runs[r]
            /\ ~(last'.run = r /\ last'.result = "failed")) =>
              GoesOn(r)
    ]_vars

\* the child that stop() had signalled has exited after a reset(), and the
\* run has started its second step
C35_Witness ==
  /\ last.ev = "exit" /\ last.exit = "term" /\ ~stopping
  /\ \E r \in RunIds : /\ runs[r].st # "free" /\ runs[r].idx = 2
                       /\ runs[r].log = StartedLog(2)

\* C36: a buildStart that comes while a run is in flight or while stopping is
\* set resolves without an error, in its own task (it does not wait for the
\* run in flight), and executes no step: no run starts, no run moves on and
\* no child is spawned.
C36_BuildStartDropsAtOnce ==
  [][(last'.ev = "buildStart" /\ (InFlight # {} \/ stopping)) =>
        /\ last'.host = "resolved"
        /\ runs' = runs /\ procs' = procs
        /\ childProcesses' = childProcesses
    ]_vars

\* C37: the Change Cache is keyed by the input path alone and is no part of
\* the runner's state.  No task of the runner, stop() and reset() among them,
\* changes it: an entry changes only where a generation for its path has
\* ended well.  Whether an invocation skips depends on the entry of its path
\* and on what it reads, not on the step that invokes it: an invocation that
\* reads the content whose hash is stored, be it stored by another step with
\* the same input path, skips as unchanged and starts no generation.
C37_CacheSharedByPath ==
  [][ /\ specHashCache' # specHashCache =>
            /\ last' = last /\ UNCHANGED <<stopping, isRunningSteps, timer>>
            /\ gl'.ev = "settle" /\ gl'.took = "done"
            /\ \A p \in InputPaths \ {gl'.input} :
                  specHashCache'[p] = specHashCache[p]
      /\ last' # last => specHashCache' = specHashCache
      /\ (gl'.ev = "start" /\ gens' # gens) => gl'.took = "generate"
      /\ \A g \in GenIds, b \in Contents :
            (/\ gl'.ev = "start" /\ gl'.took \in {"unchanged", "generate"}
             /\ gl'.gen = g /\ gens[g].st = "idle"
             /\ files[gl'.input] = {b}) =>
               /\ gl'.took = "unchanged" <=>
                     specHashCache[gl'.input] = sha256(utf8(b))
               /\ (committer[gl'.input] \notin {0, g}
                     /\ specHashCache[gl'.input] = sha256(utf8(b))) =>
                     gl'.took = "unchanged" /\ gens' = gens
    ]_vars

\* after stop() and reset() a step has skipped on the entry the other step
\* had stored
C37_Witness ==
  /\ gl.ev = "start" /\ gl.took = "unchanged"
  /\ committer[gl.input] \notin {0, gl.gen}
  /\ last.ev = "configResolved" /\ last.took = "unstopped"

====
